---- MODULE Spec2Model ----
(***************************************************************************)
(* Trace monoids (src/src/sage/monoids/trace_monoid.py): the independence  *)
(* relation of a TraceMonoid, the run-length element list of a             *)
(* TraceMonoidElement, and the operations computed from them.             *)
(*                                                                         *)
(* A trace's _element_list is a sequence of runs <<generator, amount>>.    *)
(* Python's 0-based indices are shifted by one (sequences start at 1).     *)
(***************************************************************************)
EXTENDS Integers, Sequences, FiniteSets, TLC

VARIABLES
    ngens,          \* FreeMonoid's number of generators (TraceMonoid.__init__'s n)
    independence,   \* TraceMonoid.independence: a set of generator pairs
    element_list,   \* self._element_list of the trace under consideration
    other,          \* _element_list of a second trace (the `other` of _richcmp_)
    out,            \* the value returned by the last operation
    pc,             \* position inside the marker-stack loops
    generators_set, \* local of the marker-stack loops: sorted generators, one per run
    stacks,         \* local of the marker-stack loops: generator -> stack of markers
    elements,       \* local of _stack_lex_nform: generators emitted so far
    steps,          \* local of foata_norm_form: steps emitted so far
    fired,          \* generators fired by the last round of a marker-stack loop
    raised          \* exception raised inside a marker-stack loop ("none" if none)

vars == <<ngens, independence, element_list, other, out, pc, generators_set,
          stacks, elements, steps, fired, raised>>

----------------------------------------------------------------------------
\* Bounds of the model.

\* Number of generators of the monoids explored.
MaxGens == 3
\* Longest trace (number of generator occurrences) built by multiplication.
MaxLen == 3
\* Number of generators and longest trace explored for the Hasse diagram.
HasseGens == 4
HasseLen == 4
\* Largest argument given to words() and number_of_words().
MaxWordLen == 4

Gens(n) == 0 .. (n - 1)
Pairs(n) == Gens(n) \X Gens(n)

\* The symmetric, irreflexive relations on n generators.
SymIrr(I) == /\ \A p \in I : <<p[2], p[1]>> \in I
             /\ \A p \in I : p[1] # p[2]
SymIrrRelations(n) == {I \in SUBSET Pairs(n) : SymIrr(I)}

----------------------------------------------------------------------------
\* Sequence helpers (Python list operations).

\* The sequence of k copies of v: list(repeat(v, k)).
RECURSIVE Repeat(_, _)
Repeat(v, k) == IF k <= 0 THEN <<>> ELSE <<v>> \o Repeat(v, k - 1)

\* elements[:i] + elements[i+1:] at the 1-based position i.
RemoveAt(s, i) == SubSeq(s, 1, i - 1) \o SubSeq(s, i + 1, Len(s))

\* list.insert at the 1-based position j.
InsertAt(s, j, v) == SubSeq(s, 1, j - 1) \o <<v>> \o SubSeq(s, j, Len(s))

\* Number of entries of s equal to v.
RECURSIVE Count(_, _)
Count(s, v) == IF s = <<>> THEN 0
               ELSE (IF Head(s) = v THEN 1 ELSE 0) + Count(Tail(s), v)

\* Concatenation of a sequence of sequences: chain.from_iterable.
RECURSIVE Chain(_)
Chain(ss) == IF ss = <<>> THEN <<>> ELSE Head(ss) \o Chain(Tail(ss))

----------------------------------------------------------------------------
\* The free-monoid layer the trace monoid is built on.

\* FreeMonoidElement.__init__ with check=True: adjacent runs of the same
\* generator are merged into one run.
RECURSIVE Compress(_)
Compress(x) ==
    IF x = <<>> THEN <<>>
    ELSE LET x2 == Compress(SubSeq(x, 1, Len(x) - 1))
             v  == x[Len(x)]
         IN IF Len(x2) > 0 /\ x2[Len(x2)][1] = v[1]
            THEN [x2 EXCEPT ![Len(x2)] = <<v[1], v[2] + x2[Len(x2)][2]>>]
            ELSE Append(x2, v)

\* monoid(x) for a list x of runs.
MonoidCall(x) == Compress(x)

\* Product of two elements: the run lists appended, boundary runs merged.
Mul(x, y) == Compress(x \o y)

\* monoid.gen(g).
Gen(g) == << <<g, 1>> >>

\* TraceMonoidElement._plain_elements: each run expanded into its occurrences.
RECURSIVE PlainElements(_)
PlainElements(el) ==
    IF el = <<>> THEN <<>>
    ELSE Repeat(Head(el)[1], Head(el)[2]) \o PlainElements(Tail(el))

\* Number of generator occurrences of a trace.
RECURSIVE Length(_)
Length(el) == IF el = <<>> THEN 0 ELSE Head(el)[2] + Length(Tail(el))

----------------------------------------------------------------------------
\* TraceMonoid.__init__: the given pairs are stored as a set, as given.
TraceMonoidInit(I) == I

----------------------------------------------------------------------------
\* TraceMonoidElement._sort_lex_nform.

\* Variant of SortStop: the comparison of the two generators is left out, so a
\* run is moved past every independent run to its left.
RECURSIVE SortStopAnyIndependent(_, _, _)
SortStopAnyIndependent(els, i, j) ==
    IF j > 1 /\ <<els[i][1], els[j - 1][1]>> \in independence
    THEN SortStopAnyIndependent(els, i, j - 1)
    ELSE j

\* The inner loop `for j in range(i, -1, -1)`: the position at which the
\* loop stops skipping (continue) runs of a greater, independent generator.
RECURSIVE SortStop(_, _, _)
SortStop(els, i, j) ==
    IF /\ j > 1
       /\ els[j - 1][1] > els[i][1]
       /\ <<els[i][1], els[j - 1][1]>> \in independence
    THEN SortStop(els, i, j - 1)
    ELSE j

\* One iteration of the outer loop: the run at i is moved to where the
\* inner loop stopped, or left in place when it stopped at once.
SortMove(els, i) ==
    LET j == SortStop(els, i, i)
    IN IF j = i THEN els
       ELSE InsertAt(RemoveAt(els, i), j, els[i])

\* The outer loop `for i in range(len(elements))`.
RECURSIVE SortLoop(_, _)
SortLoop(els, i) ==
    IF i > Len(els) THEN els ELSE SortLoop(SortMove(els, i), i + 1)

SortLexNForm(el) == MonoidCall(SortLoop(el, 1))

----------------------------------------------------------------------------
\* TraceMonoidElement._dependence_stack.

\* Number of runs of generator g in a run list.
RunCount(el, g) == Cardinality({k \in DOMAIN el : el[k][1] = g})

\* generators_set = sorted(e[0] for e in self._element_list): the generators
\* in ascending order, each as many times as it has runs.
RECURSIVE SortedFrom(_, _)
SortedFrom(el, g) ==
    IF g >= ngens THEN <<>>
    ELSE Repeat(g, RunCount(el, g)) \o SortedFrom(el, g + 1)

GeneratorsSet(el) == SortedFrom(el, 0)

\* The body of `for element in reversed(self._element_list)`: `amount` ready
\* markers (TRUE) on the generator's own stack, and for every entry of
\* generators_set naming another, dependent generator, `amount` blocked
\* markers (FALSE) on that generator's stack.
PushRun(st, gs, run) ==
    [h \in DOMAIN st |->
        IF h = run[1] THEN st[h] \o Repeat(TRUE, run[2])
        ELSE IF <<run[1], h>> \notin independence
             THEN st[h] \o Repeat(FALSE, run[2] * Count(gs, h))
             ELSE st[h]]

\* Variant of PushRuns: the run list is walked first to last, not reversed.
RECURSIVE PushRunsForward(_, _, _, _)
PushRunsForward(st, gs, el, k) ==
    IF k = 0 THEN st
    ELSE PushRunsForward(PushRun(st, gs, el[Len(el) - k + 1]), gs, el, k - 1)

\* The loop over the reversed run list, from run k down to run 1.
RECURSIVE PushRuns(_, _, _, _)
PushRuns(st, gs, el, k) ==
    IF k = 0 THEN st ELSE PushRuns(PushRun(st, gs, el[k]), gs, el, k - 1)

DependenceStack(el) ==
    LET gs == GeneratorsSet(el)
        empty == [g \in {el[k][1] : k \in DOMAIN el} |-> <<>>]
    IN [generators_set |-> gs, stacks |-> PushRuns(empty, gs, el, Len(el))]

----------------------------------------------------------------------------
\* The rounds of the marker-stack loops.  A stack's top is its last entry.

Top(s) == s[Len(s)]
Pop(s) == SubSeq(s, 1, Len(s) - 1)
PopN(s, k) == SubSeq(s, 1, Len(s) - k)

\* Generators whose stack is non-empty with a ready marker on top.
Ready(st) == {g \in DOMAIN st : st[g] # <<>> /\ Top(st[g])}

AllEmpty(st) == \A g \in DOMAIN st : st[g] = <<>>

Min(S) == CHOOSE x \in S : \A y \in S : x <= y

\* A set of generators as the ascending list in which stacks.items() yields them.
RECURSIVE Ascending(_)
Ascending(S) == IF S = {} THEN <<>>
                ELSE <<Min(S)>> \o Ascending(S \ {Min(S)})

\* Variant of PopsFor: one pop per fired dependent generator, whatever the
\* number of entries of generators_set naming h.
PopsForOnce(gs, F, h) ==
    Cardinality({g \in F : g # h /\ <<g, h>> \notin independence})

\* Number of stacks[h].pop() calls made for h when the generators of F have
\* fired: one per entry of generators_set naming h, per fired generator that
\* is not h and is dependent on h.
PopsFor(gs, F, h) ==
    Count(gs, h) * Cardinality({g \in F : g # h /\ <<g, h>> \notin independence})

\* The stacks after the generators of F have popped their own ready marker
\* and the blocked markers of the generators depending on them.
AfterFiring(st, gs, F) ==
    [h \in DOMAIN st |->
        PopN(IF h \in F THEN Pop(st[h]) ELSE st[h], PopsFor(gs, F, h))]

\* list.pop() on an empty list raises IndexError.
Underflow(st, gs, F) ==
    \E h \in DOMAIN st :
        Len(st[h]) - (IF h \in F THEN 1 ELSE 0) < PopsFor(gs, F, h)

\* One pass of `while True` in _stack_lex_nform: the first generator (in
\* ascending order) with a ready marker on top fires and the scan breaks;
\* the loop is left when every stack was found empty.
LexRound(st, gs) ==
    LET R == Ready(st)
        F == IF R = {} THEN {} ELSE {Min(R)}
        underflow == Underflow(st, gs, F)
    IN [fired  |-> Ascending(F),
        exit   |-> F = {} /\ AllEmpty(st),
        raised |-> IF underflow THEN "IndexError" ELSE "none",
        stacks |-> IF underflow THEN st ELSE AfterFiring(st, gs, F)]

\* One pass of `while True` in foata_norm_form: every generator with a ready
\* marker on top fires; the loop is left when every stack was found empty;
\* otherwise the blocked markers are popped for each fired generator.
FoataRound(st, gs) ==
    LET F == Ready(st)
        underflow == Underflow(st, gs, F)
    IN [fired  |-> Ascending(F),
        exit   |-> AllEmpty(st),
        raised |-> IF underflow THEN "IndexError" ELSE "none",
        stacks |-> IF underflow THEN st ELSE AfterFiring(st, gs, F)]

\* The loop of _stack_lex_nform run to its end.  A round that fires nothing
\* while a stack is non-empty repeats forever ("hang").
RECURSIVE StackLexLoop(_, _, _)
StackLexLoop(st, gs, els) ==
    LET r == LexRound(st, gs)
    IN IF r.exit THEN [raised |-> "none", elements |-> els]
       ELSE IF r.raised # "none" THEN [raised |-> r.raised, elements |-> els]
       ELSE IF r.fired = <<>> THEN [raised |-> "hang", elements |-> els]
       ELSE StackLexLoop(r.stacks, gs, els \o r.fired)

\* monoid([(e, 1) for e in elements]).
FromGenerators(els) == MonoidCall([k \in DOMAIN els |-> <<els[k], 1>>])

StackLexNForm(el) ==
    IF el = <<>> THEN [raised |-> "none", val |-> el]
    ELSE LET d == DependenceStack(el)
             r == StackLexLoop(d.stacks, d.generators_set, <<>>)
         IN [raised |-> r.raised, val |-> FromGenerators(r.elements)]

\* The loop of foata_norm_form run to its end.
RECURSIVE FoataLoop(_, _, _)
FoataLoop(st, gs, sts) ==
    LET r == FoataRound(st, gs)
    IN IF r.exit THEN [raised |-> "none", steps |-> sts]
       ELSE IF r.raised # "none" THEN [raised |-> r.raised, steps |-> sts]
       ELSE IF r.fired = <<>> THEN [raised |-> "hang", steps |-> sts]
       ELSE FoataLoop(r.stacks, gs, Append(sts, r.fired))

\* FoataNormalForm(monoid, steps): each step is a monoid element, and the
\* element list is the steps' run lists chained and merged.
FoataNormalForm(sts) ==
    LET ss == [k \in DOMAIN sts |-> FromGenerators(sts[k])]
    IN [steps |-> ss, element_list |-> Compress(Chain(ss))]

FoataNormForm(el) ==
    IF el = <<>> THEN [raised |-> "none", val |-> FoataNormalForm(<<>>)]
    ELSE LET d == DependenceStack(el)
             r == FoataLoop(d.stacks, d.generators_set, <<>>)
         IN [raised |-> r.raised, val |-> FoataNormalForm(r.steps)]

\* TraceMonoidElement.lexic_norm_form.
LexicNormForm(el, alg) ==
    IF alg = "sort" THEN [raised |-> "none", val |-> SortLexNForm(el)]
    ELSE IF alg = "stack" THEN StackLexNForm(el)
    ELSE [raised |-> "ValueError", val |-> <<>>]

\* TraceMonoidElement._richcmp_ for ==: the default normal forms' run lists
\* are compared.
RichCmpEq(x, y) == LexicNormForm(x, "sort").val = LexicNormForm(y, "sort").val

----------------------------------------------------------------------------
\* Dependency graph and Hasse diagram.  A vertex is labelled <<i, e>>: the
\* position i of an occurrence and its generator e (_graph_labels).

GraphLabel(els, i) == <<i, els[i]>>

\* Variant of DependencyGraph: the independence relation is not consulted.
DependencyGraphAllPairs(el) ==
    LET els == PlainElements(el)
    IN [vertices |-> {GraphLabel(els, i) : i \in DOMAIN els},
        edges    |-> {<<GraphLabel(els, v), GraphLabel(els, i)>> :
                        <<v, i>> \in {q \in (DOMAIN els) \X (DOMAIN els) : q[1] < q[2]}}]

\* TraceMonoidElement.dependency_graph: an edge from every earlier occurrence
\* v to occurrence i unless their generators are in the independence relation.
DependencyGraph(el) ==
    LET els == PlainElements(el)
    IN [vertices |-> {GraphLabel(els, i) : i \in DOMAIN els},
        edges    |-> {<<GraphLabel(els, v), GraphLabel(els, i)>> :
                        <<v, i>> \in {q \in (DOMAIN els) \X (DOMAIN els) :
                            /\ q[1] < q[2]
                            /\ <<els[q[2]], els[q[1]]>> \notin independence}}]

\* TraceMonoidElement.hasse_diagram: for every two edges e1, e2 of the
\* dependency graph with e1's head equal to e2's tail, the edge from e1's
\* tail to e2's head is deleted from the copy.
HasseDiagram(el) ==
    LET d == DependencyGraph(el)
    IN [vertices |-> d.vertices,
        edges    |-> d.edges \ {<<e1[1], e2[2]>> :
                        <<e1, e2>> \in {q \in d.edges \X d.edges : q[1][2] = q[2][1]}}]

----------------------------------------------------------------------------
\* Enumeration and counting of words.

\* The suffixes words() appends to a word: every generator except those
\* independent of, and smaller than, the word's last generator.
Suffixes(word) ==
    LET last == word[Len(word)][1]
    IN SelectSeq([k \in 1 .. ngens |-> k - 1],
                 LAMBDA suffix : ~(<<last, suffix>> \in independence /\ last > suffix))

\* TraceMonoid.words for length >= 0, as the list the comprehension builds.
RECURSIVE WordsList(_)
WordsList(length) ==
    IF length = 0 THEN << <<>> >>
    ELSE IF length = 1 THEN [k \in 1 .. ngens |-> Gen(k - 1)]
    ELSE LET prev == WordsList(length - 1)
         IN Chain([w \in DOMAIN prev |->
                [k \in DOMAIN Suffixes(prev[w]) |->
                    Mul(prev[w], Gen(Suffixes(prev[w])[k]))]])

Words(length) ==
    IF length < 0 THEN [raised |-> "ValueError", val |-> <<>>]
    ELSE [raised |-> "none", val |-> WordsList(length)]

\* TraceMonoid._named_set_without_duplicates: set(map(frozenset, independence)).
NamedSetWithoutDuplicates == {{p[1], p[2]} : p \in independence}

\* TraceMonoid.independence_graph: the graph built from that edge list alone;
\* its vertices are the endpoints of the edges.
IndependenceGraph ==
    [vertices |-> UNION NamedSetWithoutDuplicates,
     edges    |-> NamedSetWithoutDuplicates]

\* The cliques of a graph with k vertices.
Cliques(G, k) ==
    {S \in SUBSET G.vertices :
        /\ Cardinality(S) = k
        /\ \A a \in S : \A b \in S : a # b => {a, b} \in G.edges}

\* Size of the largest clique.
CliqueNumber(G) ==
    CHOOSE k \in 0 .. Cardinality(G.vertices) :
        /\ Cliques(G, k) # {}
        /\ \A m \in (k + 1) .. Cardinality(G.vertices) : Cliques(G, m) = {}

\* Graph.clique_polynomial().coefficients(): entry i + 1 is the number of
\* cliques with i vertices, the empty clique included.
CliquePolynomialCoefficients(G) ==
    [i \in 1 .. (CliqueNumber(G) + 1) |-> Cardinality(Cliques(G, i - 1))]

\* The denominator of dependence_polynomial: entry i + 1 is (-1)^i * coeff_i.
DependencePolynomialDenominator ==
    LET clique_seq == CliquePolynomialCoefficients(IndependenceGraph)
    IN [i \in DOMAIN clique_seq |->
            (IF (i - 1) % 2 = 0 THEN 1 ELSE -1) * clique_seq[i]]

\* Coefficient of t^k in the power series 1 / den (den's constant term is 1).
RECURSIVE SeriesCoefficient(_, _)
RECURSIVE SeriesSum(_, _, _)
SeriesSum(den, k, i) ==
    IF i > k \/ i + 1 > Len(den) THEN 0
    ELSE den[i + 1] * SeriesCoefficient(den, k - i) + SeriesSum(den, k, i + 1)

SeriesCoefficient(den, k) ==
    IF k = 0 THEN 1 ELSE 0 - SeriesSum(den, k, 1)

\* TraceMonoid.number_of_words.
NumberOfWords(length) == SeriesCoefficient(DependencePolynomialDenominator, length)

\* TraceMonoid.dependence: the pairs of generators not in independence.
Dependence == {pair \in Pairs(ngens) : pair \notin independence}

----------------------------------------------------------------------------
\* State machine.

NoOut == [op |-> "none"]

\* The locals of the marker-stack loops outside a loop.
LoopIdle(p, g, st, e, sp, f, r) ==
    /\ p = "idle" /\ g = <<>> /\ st = <<>> /\ e = <<>> /\ sp = <<>>
    /\ f = <<>> /\ r = "none"

\* A monoid on n generators constructed from the pairs I, and its identity.
Constructed(n, I) ==
    /\ ngens = n
    /\ independence = TraceMonoidInit(I)
    /\ element_list = <<>>
    /\ other = <<>>
    /\ out = NoOut
    /\ LoopIdle(pc, generators_set, stacks, elements, steps, fired, raised)

\* TraceMonoid(n, I=I) for a symmetric, irreflexive I.
Init == \E n \in 1 .. MaxGens : \E I \in SymIrrRelations(n) : Constructed(n, I)

\* TraceMonoid(n, I=I) for any collection I of generator pairs.
InitAny == \E n \in 1 .. MaxGens : \E I \in SUBSET Pairs(n) : Constructed(n, I)

\* The monoids explored for the Hasse diagram.
InitHasse == \E I \in SymIrrRelations(HasseGens) : Constructed(HasseGens, I)

loopvars == <<pc, generators_set, stacks, elements, steps, fired, raised>>
monoid == <<ngens, independence>>

\* element_list := element_list * gen(g), for traces of at most maxlen occurrences.
MulBy(g, maxlen) ==
    /\ pc = "idle"
    /\ Length(element_list) < maxlen
    /\ element_list' = Mul(element_list, Gen(g))
    /\ out' = NoOut
    /\ UNCHANGED <<monoid, other, loopvars>>

MulGen == \E g \in Gens(ngens) : MulBy(g, MaxLen)

MulGenHasse == \E g \in Gens(ngens) : MulBy(g, HasseLen)

\* A trace operation is called on the trace the multiplications have built:
\* its result depends on the monoid and on the trace alone, so the model does
\* not call a second operation on a trace while a result is held in out.
Callable == pc = "idle" /\ out = NoOut

\* x.lexic_norm_form(alg).
LexicNormFormOp ==
    \E alg \in {"sort", "stack"} :
        /\ Callable
        /\ LET r == LexicNormForm(element_list, alg)
           IN out' = [op |-> "lexic_norm_form", alg |-> alg,
                      raised |-> r.raised, val |-> r.val]
        /\ UNCHANGED <<monoid, element_list, other, loopvars>>

\* x.foata_norm_form().
FoataNormFormOp ==
    /\ Callable
    /\ LET r == FoataNormForm(element_list)
       IN out' = [op |-> "foata_norm_form", raised |-> r.raised, val |-> r.val]
    /\ UNCHANGED <<monoid, element_list, other, loopvars>>

\* x.dependency_graph().
DependencyGraphOp ==
    /\ Callable
    /\ out' = [op |-> "dependency_graph", val |-> DependencyGraph(element_list)]
    /\ UNCHANGED <<monoid, element_list, other, loopvars>>

\* x.hasse_diagram().
HasseDiagramOp ==
    /\ Callable
    /\ out' = [op |-> "hasse_diagram", val |-> HasseDiagram(element_list)]
    /\ UNCHANGED <<monoid, element_list, other, loopvars>>

\* M.words(length).
WordsOp ==
    \E length \in (-1) .. MaxWordLen :
        /\ LET r == Words(length)
           IN out' = [op |-> "words", length |-> length,
                      raised |-> r.raised, val |-> r.val]
        /\ UNCHANGED <<monoid, element_list, other, loopvars>>

\* M.number_of_words(length).
NumberOfWordsOp ==
    \E length \in 0 .. MaxWordLen :
        /\ out' = [op |-> "number_of_words", length |-> length,
                   val |-> NumberOfWords(length)]
        /\ UNCHANGED <<monoid, element_list, other, loopvars>>

\* M.dependence.
DependenceOp ==
    /\ out' = [op |-> "dependence", val |-> Dependence]
    /\ UNCHANGED <<monoid, element_list, other, loopvars>>

\* `(i, j) in independence`, the membership test the operations make.
IndependentOp ==
    \E pair \in Pairs(ngens) :
        /\ out' = [op |-> "in", pair |-> pair, val |-> pair \in independence]
        /\ UNCHANGED <<monoid, element_list, other, loopvars>>

----------------------------------------------------------------------------
\* Two linearizations: element_list and other grow by the same generators, and
\* other is rewritten by commuting two adjacent occurrences of generators in
\* the independence relation.

Swap(s, k) == [i \in DOMAIN s |-> IF i = k THEN s[k + 1]
                                   ELSE IF i = k + 1 THEN s[k] ELSE s[i]]

MulBoth ==
    \E g \in Gens(ngens) :
        /\ Length(element_list) < MaxLen
        /\ element_list' = Mul(element_list, Gen(g))
        /\ other' = Mul(other, Gen(g))
        /\ out' = NoOut
        /\ UNCHANGED <<monoid, loopvars>>

Commute ==
    \E k \in 1 .. (Length(other) - 1) :
        LET w == PlainElements(other)
        IN /\ <<w[k], w[k + 1]>> \in independence
           /\ other' = FromGenerators(Swap(w, k))
           /\ out' = NoOut
           /\ UNCHANGED <<monoid, element_list, loopvars>>

\* element_list == other.
RichCmpOp ==
    /\ Callable
    /\ out' = [op |-> "richcmp", val |-> RichCmpEq(element_list, other)]
    /\ UNCHANGED <<monoid, element_list, other, loopvars>>

\* The dependency graphs of both linearizations.
DependencyGraphsOp ==
    /\ Callable
    /\ out' = [op |-> "dependency_graphs",
               val |-> DependencyGraph(element_list),
               val_other |-> DependencyGraph(other)]
    /\ UNCHANGED <<monoid, element_list, other, loopvars>>

----------------------------------------------------------------------------
\* The marker-stack loops of _stack_lex_nform and foata_norm_form, one pass
\* of `while True` per step.

\* Entry of either method with a non-empty trace: _dependence_stack.
LoopStart(which) ==
    /\ pc = "idle"
    /\ element_list # <<>>
    /\ pc' = which
    /\ LET d == DependenceStack(element_list)
       IN generators_set' = d.generators_set /\ stacks' = d.stacks
    /\ elements' = <<>>
    /\ steps' = <<>>
    /\ fired' = <<>>
    /\ raised' = "none"
    /\ out' = NoOut
    /\ UNCHANGED <<monoid, element_list, other>>

StackLexStart == LoopStart("stack_lex")

FoataStart == LoopStart("foata")

\* A pass of the loop of _stack_lex_nform.
StackLexPass ==
    LET r == LexRound(stacks, generators_set)
    IN /\ pc = "stack_lex"
       /\ IF r.exit
          THEN /\ pc' = "returned"
               /\ out' = [op |-> "lexic_norm_form", alg |-> "stack",
                          raised |-> "none", val |-> FromGenerators(elements)]
               /\ UNCHANGED <<stacks, elements, fired, raised>>
          ELSE IF r.raised # "none"
          THEN /\ pc' = "raised"
               /\ raised' = r.raised
               /\ UNCHANGED <<stacks, elements, fired, out>>
          ELSE /\ stacks' = r.stacks
               /\ elements' = elements \o r.fired
               /\ fired' = r.fired
               /\ UNCHANGED <<pc, raised, out>>
       /\ UNCHANGED <<monoid, element_list, other, generators_set, steps>>

\* A pass of the loop of foata_norm_form.
FoataPass ==
    LET r == FoataRound(stacks, generators_set)
    IN /\ pc = "foata"
       /\ IF r.exit
          THEN /\ pc' = "returned"
               /\ out' = [op |-> "foata_norm_form", raised |-> "none",
                          val |-> FoataNormalForm(steps)]
               /\ UNCHANGED <<stacks, steps, fired, raised>>
          ELSE IF r.raised # "none"
          THEN /\ pc' = "raised"
               /\ raised' = r.raised
               /\ UNCHANGED <<stacks, steps, fired, out>>
          ELSE /\ stacks' = r.stacks
               /\ steps' = IF r.fired # <<>> THEN Append(steps, r.fired) ELSE steps
               /\ fired' = r.fired
               /\ UNCHANGED <<pc, raised, out>>
       /\ UNCHANGED <<monoid, element_list, other, generators_set, elements>>

\* The method has returned; its locals are gone.
Return ==
    /\ pc = "returned"
    /\ LoopIdle(pc', generators_set', stacks', elements', steps', fired', raised')
    /\ UNCHANGED <<monoid, element_list, other, out>>

----------------------------------------------------------------------------
\* Specifications.

\* Normal forms and Foata form of the traces of a monoid.
Next == MulGen \/ LexicNormFormOp \/ FoataNormFormOp

Spec == Init /\ [][Next]_vars

\* Two congruent linearizations compared.
NextPair == MulBoth \/ Commute \/ RichCmpOp \/ DependencyGraphsOp

SpecPair == Init /\ [][NextPair]_vars

\* Dependency graph and Hasse diagram.
NextHasse == MulGenHasse \/ DependencyGraphOp \/ HasseDiagramOp

SpecHasse == InitHasse /\ [][NextHasse]_vars

\* Enumeration and counting.
NextGrowth == WordsOp \/ NumberOfWordsOp

SpecGrowth == Init /\ [][NextGrowth]_vars

\* Construction from any collection of pairs.
NextAny == DependenceOp \/ IndependentOp

SpecAny == InitAny /\ [][NextAny]_vars

\* The marker-stack loops pass by pass.
NextLoop == MulGen \/ StackLexStart \/ StackLexPass \/ FoataStart \/ FoataPass
            \/ Return

SpecLoop == Init /\ [][NextLoop]_vars

----------------------------------------------------------------------------
\* Vocabulary of the properties.

\* The occurrences of a and b in w, in order.
Projection(w, a, b) == SelectSeq(w, LAMBDA x : x = a \/ x = b)

\* Two words are congruent: each generator occurs equally often in both, and
\* the occurrences of every two dependent generators are in the same order.
Congruent(u, v) ==
    \A a \in Gens(ngens) : \A b \in Gens(ngens) :
        <<a, b>> \notin independence => Projection(u, a, b) = Projection(v, a, b)

\* All words of a given length over n generators.
AllWords(n, length) == [1 .. length -> Gens(n)]

\* No two adjacent runs of a run list have the same generator.
NoAdjacentEqual(el) == \A k \in 1 .. (Len(el) - 1) : el[k][1] # el[k + 1][1]

\* Transitive closure of a set of edges.
RECURSIVE TransitiveClosure(_)
TransitiveClosure(E) ==
    LET E2 == E \cup {<<p[1], q[2]>> : <<p, q>> \in {r \in E \X E : r[1][2] = r[2][1]}}
    IN IF E2 = E THEN E ELSE TransitiveClosure(E2)

\* The vertex <<i, e>> of a dependency graph of the word w, named by its
\* generator and by which occurrence of that generator it is.
Occurrence(w, v) == <<v[2], Count(SubSeq(w, 1, v[1]), v[2])>>

OccurrenceEdges(w, G) == {<<Occurrence(w, e[1]), Occurrence(w, e[2])>> : e \in G.edges}

OccurrenceVertices(w, G) == {Occurrence(w, v) : v \in G.vertices}

\* The generators of one Foata step listed by increasing rank.
RECURSIVE ByRank(_, _)
ByRank(S, rank) ==
    IF S = {} THEN <<>>
    ELSE LET g == CHOOSE x \in S : \A y \in S : rank[x] <= rank[y]
         IN <<g>> \o ByRank(S \ {g}, rank)

\* The total orders of the generators, as rankings.
Rankings(n) == {r \in [Gens(n) -> Gens(n)] : \A a, b \in Gens(n) : a # b => r[a] # r[b]}

\* The steps flattened, each step's generators in the order of the ranking,
\* and adjacent equal generators merged.
Reassembled(sts, rank) ==
    FromGenerators(Chain([k \in DOMAIN sts |->
        ByRank({sts[k][j][1] : j \in DOMAIN sts[k]}, rank)]))

\* Number of congruence classes of the words of a given length.
ClassCount(length) ==
    Cardinality({{v \in AllWords(ngens, length) : Congruent(u, v)} :
                    u \in AllWords(ngens, length)})

\* The pass the loop under way is about to make.
InLoop == pc \in {"stack_lex", "foata"}
NextPass == IF pc = "stack_lex" THEN LexRound(stacks, generators_set)
            ELSE FoataRound(stacks, generators_set)

\* The generators emitted so far by the loop that ran.
Emitted == IF out.op = "foata_norm_form" THEN Chain(steps) ELSE elements

----------------------------------------------------------------------------
\* Properties.

\* C1: over a symmetric, irreflexive independence relation, two congruent
\* words (w*a*b and w*b*a for independent a, b in particular) have the same
\* lexic_norm_form() run list, so they compare equal through _richcmp_.
C1_CongruentTracesCompareEqual ==
    (/\ out.op = "richcmp"
     /\ SymIrr(independence)
     /\ Congruent(PlainElements(element_list), PlainElements(other)))
    => out.val = TRUE

\* C2: lexic_norm_form(alg='stack') and lexic_norm_form(alg='sort') return
\* the same run list for every trace.
C2_SortAndStackAgree ==
    (out.op = "lexic_norm_form" /\ out.alg = "stack")
    => /\ out.raised = "none"
       /\ out.val = LexicNormForm(element_list, "sort").val

\* C3: words(length) holds exactly one representative of every congruence
\* class of the words of that length: no two entries are congruent, and every
\* word of that length is congruent to an entry.
C3_WordsOnePerClass ==
    (out.op = "words" /\ out.length >= 0)
    => /\ \A i \in DOMAIN out.val : \A j \in DOMAIN out.val :
            i # j => ~Congruent(PlainElements(out.val[i]), PlainElements(out.val[j]))
       /\ \A w \in AllWords(ngens, out.length) :
            \E i \in DOMAIN out.val : Congruent(w, PlainElements(out.val[i]))

\* C4: number_of_words(length) is the number of congruence classes of the
\* words of that length.
C4_NumberOfWordsCountsClasses ==
    out.op = "number_of_words" => out.val = ClassCount(out.length)

\* C5: the steps of foata_norm_form(), flattened in order with each step's
\* generators in any fixed order and adjacent equal generators merged, are a
\* word congruent to the trace.
C5_FoataReassembly ==
    out.op = "foata_norm_form"
    => /\ out.raised = "none"
       /\ \A rank \in Rankings(ngens) :
            Congruent(PlainElements(Reassembled(out.val.steps, rank)),
                      PlainElements(element_list))

C5_Witness ==
    /\ out.op = "foata_norm_form"
    /\ Len(out.val.steps) >= 2
    /\ \E k \in DOMAIN out.val.steps : Len(out.val.steps[k]) >= 2
    /\ out.val.element_list # element_list

\* C6: hasse_diagram() is the transitive reduction of dependency_graph(): the
\* same transitive closure, and no edge i->j kept when the dependency graph
\* has another path from i to j through intermediate occurrences.
C6_HasseIsTransitiveReduction ==
    out.op = "hasse_diagram"
    => LET d == DependencyGraph(element_list)
           closure == TransitiveClosure(d.edges)
       IN /\ TransitiveClosure(out.val.edges) = closure
          /\ \A e \in out.val.edges :
                ~\E k \in d.vertices : <<e[1], k>> \in closure /\ <<k, e[2]>> \in closure

\* C7: the dependency graphs of two congruent words are the same graph once
\* every vertex is named by its generator and occurrence number, and no edge
\* joins occurrences of two independent generators.
C7_GraphInvariance ==
    (/\ out.op = "dependency_graphs"
     /\ Congruent(PlainElements(element_list), PlainElements(other)))
    => LET u == PlainElements(element_list)
           v == PlainElements(other)
       IN /\ OccurrenceVertices(u, out.val) = OccurrenceVertices(v, out.val_other)
          /\ OccurrenceEdges(u, out.val) = OccurrenceEdges(v, out.val_other)
          /\ TransitiveClosure(OccurrenceEdges(u, out.val))
               = TransitiveClosure(OccurrenceEdges(v, out.val_other))
          /\ \A e \in out.val.edges \cup out.val_other.edges :
                <<e[1][2], e[2][2]>> \notin independence

C7_Witness ==
    /\ out.op = "dependency_graphs"
    /\ element_list # other
    /\ out.val.edges # out.val_other.edges
    /\ Cardinality(out.val.edges) >= 2

\* C8: the relation stored by the constructor is symmetric and irreflexive,
\* whatever pairs were given, so a membership test answers the same for
\* (i, j) and (j, i).
C8_StoredRelationSymmetricIrreflexive ==
    /\ \A i \in Gens(ngens) : \A j \in Gens(ngens) :
            <<i, j>> \in independence <=> <<j, i>> \in independence
    /\ \A i \in Gens(ngens) : <<i, i>> \notin independence
    /\ out.op = "in" => out.val = (<<out.pair[2], out.pair[1]>> \in independence)

\* C9: lexic_norm_form(alg) applied to its own result returns the same run
\* list, and the result has no two adjacent runs of the same generator.
C9_NormalFormIdempotent ==
    out.op = "lexic_norm_form"
    => /\ out.raised = "none"
       /\ LexicNormForm(out.val, out.alg).raised = "none"
       /\ LexicNormForm(out.val, out.alg).val = out.val
       /\ NoAdjacentEqual(out.val)

C9_Witness ==
    /\ out.op = "lexic_norm_form"
    /\ out.alg = "sort"
    /\ out.val # element_list
    /\ \E k \in DOMAIN out.val : out.val[k][2] >= 2

\* C10: the marker-stack loops never pop an empty stack, every pass started
\* with a non-empty stack fires a generator, every pass that stays in the loop
\* leaves fewer markers on the stacks (so the loop is left after finitely many
\* passes), and the loop is left with all stacks empty and every occurrence of
\* the trace emitted exactly once.
C10_LoopSafe ==
    /\ pc # "raised"
    /\ InLoop => NextPass.raised = "none"
    /\ (InLoop /\ ~AllEmpty(stacks)) => NextPass.fired # <<>>
    /\ pc = "returned"
       => /\ AllEmpty(stacks)
          /\ \A g \in Gens(ngens) :
                Count(Emitted, g) = Count(PlainElements(element_list), g)

\* Number of markers left on the stacks.
MarkersOn(st) == Length([k \in DOMAIN Ascending(DOMAIN st) |->
                            <<Ascending(DOMAIN st)[k], Len(st[Ascending(DOMAIN st)[k]])>>])

C10_LoopsRunToCompletion ==
    /\ []C10_LoopSafe
    /\ [][(InLoop /\ pc' = pc) => MarkersOn(stacks') < MarkersOn(stacks)]_vars

C10_Witness ==
    /\ pc = "returned"
    /\ \E g \in Gens(ngens) : \E h \in Gens(ngens) :
            /\ RunCount(element_list, g) >= 2
            /\ RunCount(element_list, h) >= 1
            /\ g # h
            /\ <<g, h>> \notin independence

====
